---- MODULE Spec2Model ----
(***************************************************************************)
(* Model of rpi_ky_040/_ky_040.py: the KY-040 quadrature decoder           *)
(* (RotaryEncoder), its four callback dispatch strategies, the worker      *)
(* thread (CallbackThread) and the reference counted shared worker         *)
(* (callback_queue).  The GPIO layer is the one of tests/gpio_mock.py.     *)
(*                                                                         *)
(* Three specifications share the variables:                               *)
(*   SpecSync   - the test harness: set_pin runs the edge handler to       *)
(*                completion before the next level change;                 *)
(*   Spec       - edge handlers on concurrent interrupt threads, with the  *)
(*                dispatch strategy chosen at construction;                *)
(*   SpecShared - concurrent holders of callback_queue() and the worker    *)
(*                threads they start, feed and stop.                       *)
(***************************************************************************)
EXTENDS Integers, Sequences, FiniteSets, TLC

\* ---------------------------------------------------------------- bounds
\* level changes applied by the harness in SpecSync
MaxSyncChanges == 8
\* physical level changes in Spec
MaxEdges == 4
\* entries into callback_queue() in SpecShared
MaxAcquires == 3
\* callbacks the holders append in SpecShared
MaxCallbacks == 3

\* ------------------------------------------------------------- constants
Pins == {"clk", "dt"}
NoThread == "none"
\* interrupt-service threads of the hardware layer that run edge handlers
HThreads == {"h1", "h2"}
\* CallbackThread instances that can be created
Workers == {"w1", "w2"}
\* threads that enter `with callback_queue()`
Clients == {"a", "b"}
NoCallback == [id |-> 0, dir |-> "none", cause |-> "none", armed |-> FALSE]
\* CallbackHandling members
SAME_THREAD == "SAME_THREAD"
GLOBAL_WORKER_THREAD == "GLOBAL_WORKER_THREAD"
LOCAL_WORKER_THREAD == "LOCAL_WORKER_THREAD"
SPAWN_THREAD == "SPAWN_THREAD"
CallbackHandling ==
    {SAME_THREAD, GLOBAL_WORKER_THREAD, LOCAL_WORKER_THREAD, SPAWN_THREAD}

VARIABLES
    \* gpio_mock._pins, gpio_mock._callbacks (is a notifier registered)
    pins, callbacks,
    \* RotaryEncoderState
    clk_state, dt_state, last_resting_state, state_lock,
    \* RotaryEncoder configuration: is the callback not None; the strategy
    on_clockwise_turn, on_counter_clockwise_turn, callback_handling,
    \* position of start(): created, read_dt, rest, add_clk, add_dt,
    \* started, failed (NotInRestingStateError left start())
    epc,
    \* edge handler passes: position, which handler, callback decided (with
    \* its history: the number of the detent, the pin that brought the pins
    \* to the confirmed level, whether start() had returned)
    hpc, hkind, hcb,
    \* call_count of the two user callbacks
    nCw, nCcw,
    \* did an exception of a user callback leave an edge handler
    escaped,
    \* callbacks handed to spawn_thread_callback_handler and not yet run
    spawned,
    \* history of the run: level changes so far, detents decided so far,
    \* callbacks handed to the dispatch strategy, callbacks executed
    nChanges, nDecided, dispatched, executed,
    \* physical history: who brought the pins to rest on each level, the
    \* last resting level of the pins, the settles by pin, the excursion
    settledBy, lastRest, nSettle, excLevel, excBase,
    \* the pins changed since start(), in order (SpecSync)
    trace,
    \* CallbackThread instances: position of run(), _is_running, queue,
    \* the callback popped and being called
    wpc, is_running, queue, wcur,
    \* _global_callback_thread, _usage_counter, holder of _usage_counter_lock
    global_callback_thread, usage_counter, usage_counter_lock,
    \* threads in `with callback_queue()`: position, the queue yielded
    cpc, cq,
    \* history: acquisitions begun, callbacks appended by the holders, the
    \* queue of a worker when stop() was called on it, stop() returned
    nAcquired, nProduced, stopSnap, joined,
    \* history: callbacks queued behind one that raised in a worker, and the
    \* loops of run() in which a callback raised
    failBehind, raisedIn,
    \* quiet window: the passes that read CLK and decided a detent since the
    \* last level change, and the callbacks they handed over since then
    hfresh, windowDispatch,
    \* the button of the encoder: is sw_pin not None, are on_button_down and
    \* on_button_up not None, is a notifier registered for the button pin
    sw_pin, on_button_down, on_button_up, sw_callback,
    \* rotary_encoder(): position of the factory's generator, and how the
    \* caller's with block was left
    fpc, fexit

encVars == <<pins, callbacks, clk_state, dt_state, last_resting_state,
             state_lock, on_clockwise_turn, on_counter_clockwise_turn,
             callback_handling, epc>>
handlerVars == <<hpc, hkind, hcb, nCw, nCcw, escaped, spawned>>
historyVars == <<nChanges, nDecided, dispatched, executed, settledBy,
                 lastRest, nSettle, excLevel, excBase, hfresh,
                 windowDispatch, trace>>
workerVars == <<wpc, is_running, queue, wcur>>
lifecycleVars == <<global_callback_thread, usage_counter, usage_counter_lock,
                   cpc, cq, nAcquired, nProduced, stopSnap, joined>>
failVars == <<failBehind, raisedIn>>
sharedVars == <<lifecycleVars, failVars>>
factoryVars == <<sw_pin, on_button_down, on_button_up, sw_callback, fpc, fexit>>
vars == <<encVars, handlerVars, historyVars, workerVars, sharedVars,
          factoryVars>>

\* ------------------------------------------------------ RotaryEncoder
\* _is_resting_state
IsRestingState(clk, dt) == clk = dt

NotInRestingStateError == "NotInRestingStateError"

\* _current_resting_state: the common level, or the error raised
CurrentRestingState(clk, dt) ==
    IF ~IsRestingState(clk, dt) THEN NotInRestingStateError ELSE clk

DidDialMoveAnyRest(clk, dt, last) == IsRestingState(clk, dt)

\* _did_dial_move: the value returned
DidDialMove(clk, dt, last) ==
    IsRestingState(clk, dt) /\ CurrentRestingState(clk, dt) # last

LastRestingFollowsClk(clk, dt, last) == clk

LastRestingStale(clk, dt, last) == last

\* _did_dial_move: last_resting_state after the call
LastRestingAfter(clk, dt, last) ==
    IF DidDialMove(clk, dt, last) THEN CurrentRestingState(clk, dt) ELSE last

HandlerDirectionSwapped(kind) == IF kind = "clk" THEN "cw" ELSE "ccw"

\* the callback each edge handler dispatches
HandlerDirection(kind) == IF kind = "clk" THEN "ccw" ELSE "cw"

\* the `is not None` test of the handler for its callback
CallbackSet(kind) ==
    IF kind = "clk" THEN on_counter_clockwise_turn ELSE on_clockwise_turn

\* start(): does _current_resting_state raise at line 82
StartRaises(clk, dt) == ~IsRestingState(clk, dt)

DefaultLastRestingState == FALSE

Toggle(p) == [pins EXCEPT ![p] = ~pins[p]]

\* a user callback is called: its call_count
CallCount(dir) ==
    /\ nCw' = IF dir = "cw" THEN nCw + 1 ELSE nCw
    /\ nCcw' = IF dir = "ccw" THEN nCcw + 1 ELSE nCcw

\* ------------------------------------------------- physical history
\* the levels np are reached by a change of pin p
SettleHistory(p, np) ==
    /\ settledBy' = IF np["clk"] = np["dt"]
                    THEN [settledBy EXCEPT ![np["clk"]] = p]
                    ELSE settledBy
    /\ lastRest' = IF np["clk"] = np["dt"] THEN np["clk"] ELSE lastRest
    /\ nSettle' = IF np["clk"] = np["dt"] /\ np["clk"] # lastRest
                  THEN [nSettle EXCEPT ![p] = @ + 1]
                  ELSE nSettle
    /\ excLevel' = IF pins["clk"] = pins["dt"] THEN pins["clk"] ELSE excLevel
    /\ excBase' = IF pins["clk"] = pins["dt"] THEN nCw + nCcw ELSE excBase
    /\ trace' = Append(trace, p)

\* the history starts when start() has registered the notifiers
StartHistory ==
    /\ lastRest' = pins["clk"]
    /\ excLevel' = pins["clk"]
    /\ excBase' = nCw + nCcw
    /\ nSettle' = [p \in Pins |-> 0]
    /\ settledBy' = [l \in BOOLEAN |-> "none"]
    /\ trace' = <<>>

\* ------------------------------------------------ the test harness
\* start() run to completion by the only thread
SyncStart ==
    /\ epc = "created"
    /\ clk_state' = pins["clk"]
    /\ dt_state' = pins["dt"]
    /\ IF StartRaises(pins["clk"], pins["dt"])
       THEN /\ epc' = "failed"
            /\ UNCHANGED <<last_resting_state, callbacks, lastRest, excLevel,
                           excBase, nSettle, settledBy, trace>>
       ELSE /\ last_resting_state' = CurrentRestingState(pins["clk"], pins["dt"])
            /\ callbacks' = [p \in Pins |-> TRUE]
            /\ epc' = "started"
            /\ StartHistory
    /\ UNCHANGED <<pins, state_lock, on_clockwise_turn,
                   on_counter_clockwise_turn, callback_handling,
                   handlerVars, nChanges, nDecided, dispatched, executed,
                   hfresh, windowDispatch, workerVars, sharedVars, factoryVars>>

\* gpio_mock.set_pin(pin, state): the level change and, when a notifier is
\* registered for the pin, the whole edge handler with the callback it
\* calls through same_thread_callback_handler
SyncSetPin(p, state) ==
    /\ nChanges < MaxSyncChanges
    /\ IF pins[p] = state
       THEN UNCHANGED vars
       ELSE LET np == [pins EXCEPT ![p] = state]
                moved == DidDialMove(np["clk"], np["dt"], last_resting_state)
            IN /\ pins' = np
               /\ nChanges' = nChanges + 1
               /\ IF callbacks[p]
                  THEN /\ dt_state' = np["dt"]
                       /\ clk_state' = np["clk"]
                       /\ last_resting_state' =
                            LastRestingAfter(np["clk"], np["dt"], last_resting_state)
                       /\ nDecided' = IF moved THEN nDecided + 1 ELSE nDecided
                       /\ IF moved /\ CallbackSet(p)
                          THEN CallCount(HandlerDirection(p))
                          ELSE UNCHANGED <<nCw, nCcw>>
                       /\ SettleHistory(p, np)
                  ELSE UNCHANGED <<dt_state, clk_state, last_resting_state,
                                   nDecided, nCw, nCcw, settledBy, lastRest,
                                   nSettle, excLevel, excBase, trace>>
               /\ UNCHANGED <<callbacks, state_lock, on_clockwise_turn,
                              on_counter_clockwise_turn, callback_handling,
                              epc, hpc, hkind, hcb, escaped, spawned,
                              dispatched, executed, hfresh, windowDispatch,
                              workerVars, sharedVars, factoryVars>>

\* the state after construction; the pins hold any levels
InitEncoder ==
    /\ pins \in [Pins -> BOOLEAN]
    /\ callbacks = [p \in Pins |-> FALSE]
    /\ clk_state = FALSE
    /\ dt_state = FALSE
    /\ last_resting_state = DefaultLastRestingState
    /\ state_lock = NoThread
    /\ on_clockwise_turn \in BOOLEAN
    /\ on_counter_clockwise_turn \in BOOLEAN
    /\ epc = "created"
    /\ hpc = [t \in HThreads |-> "idle"]
    /\ hkind = [t \in HThreads |-> "clk"]
    /\ hcb = [t \in HThreads |-> NoCallback]
    /\ nCw = 0
    /\ nCcw = 0
    /\ escaped = FALSE
    /\ spawned = {}
    /\ nChanges = 0
    /\ nDecided = 0
    /\ dispatched = <<>>
    /\ executed = <<>>
    /\ settledBy = [l \in BOOLEAN |-> "none"]
    /\ lastRest = FALSE
    /\ nSettle = [p \in Pins |-> 0]
    /\ excLevel = FALSE
    /\ excBase = 0
    /\ hfresh = [t \in HThreads |-> FALSE]
    /\ windowDispatch = 0
    /\ trace = <<>>

\* no CallbackThread has been created
InitNoWorkers ==
    /\ wpc = [w \in Workers |-> "new"]
    /\ is_running = [w \in Workers |-> FALSE]
    /\ queue = [w \in Workers |-> <<>>]
    /\ wcur = [w \in Workers |-> NoCallback]

NoWorker == "None"

\* module level, lines 236-238, and no thread inside callback_queue()
InitShared ==
    /\ global_callback_thread = NoWorker
    /\ usage_counter = 0
    /\ usage_counter_lock = NoThread
    /\ cpc = [c \in Clients |-> "out"]
    /\ cq = [c \in Clients |-> NoWorker]
    /\ nAcquired = 0
    /\ nProduced = 0
    /\ stopSnap = [w \in Workers |-> {}]
    /\ joined = [w \in Workers |-> FALSE]
    /\ failBehind = [w \in Workers |-> {}]
    /\ raisedIn = [w \in Workers |-> {}]

\* an encoder constructed without sw_pin and button callbacks
InitNoButton ==
    /\ sw_pin = FALSE
    /\ on_button_down = FALSE
    /\ on_button_up = FALSE
    /\ sw_callback = FALSE

\* the encoder is constructed directly, not by rotary_encoder()
InitNoFactory ==
    /\ fpc = "none"
    /\ fexit = "none"

InitSync ==
    /\ InitEncoder
    /\ InitNoButton
    /\ InitNoFactory
    /\ InitNoWorkers
    /\ InitShared
    /\ callback_handling = SAME_THREAD

NextSync ==
    \/ SyncStart
    \/ \E p \in Pins, state \in BOOLEAN : SyncSetPin(p, state)

SpecSync == InitSync /\ [][NextSync]_vars

\* ------------------------------------------------ CallbackThread
syncGhost == <<lastRest, nSettle, excLevel, excBase, trace>>

\* collections.deque: appendleft and pop (the right end)
AppendLeft(q, cb) == <<cb>> \o q
PopValue(q) == q[Len(q)]
PopRest(q) == SubSeq(q, 1, Len(q) - 1)

\* callback(): the user callback runs in the calling thread
RunCallback(cb) ==
    /\ CallCount(cb.dir)
    /\ executed' = Append(executed, cb.id)

WorkerLoopIgnoresStop(w) ==
    /\ wpc[w] = "loop"
    /\ IF queue[w] = <<>>
       THEN UNCHANGED <<wpc, queue, wcur>>
       ELSE /\ wcur' = [wcur EXCEPT ![w] = PopValue(queue[w])]
            /\ queue' = [queue EXCEPT ![w] = PopRest(queue[w])]
            /\ wpc' = [wpc EXCEPT ![w] = "call"]
    /\ UNCHANGED <<encVars, hpc, hkind, hcb, nCw, nCcw, escaped, spawned,
                   historyVars, is_running, sharedVars, factoryVars>>

\* run(), lines 210-214: the test of _is_running and queue.pop()
WorkerLoop(w) ==
    /\ wpc[w] = "loop"
    /\ IF ~is_running[w]
       THEN /\ wpc' = [wpc EXCEPT ![w] = "drain"]
            /\ UNCHANGED <<queue, wcur>>
       ELSE IF queue[w] = <<>>
       THEN UNCHANGED <<wpc, queue, wcur>>
       ELSE /\ wcur' = [wcur EXCEPT ![w] = PopValue(queue[w])]
            /\ queue' = [queue EXCEPT ![w] = PopRest(queue[w])]
            /\ wpc' = [wpc EXCEPT ![w] = "call"]
    /\ UNCHANGED <<encVars, hpc, hkind, hcb, nCw, nCcw, escaped, spawned,
                   historyVars, is_running, sharedVars, factoryVars>>

IdsOf(q) == {q[i].id : i \in 1..Len(q)}

AfterCallbackDies(next, raises) == IF raises THEN "exited" ELSE next

\* where run() goes on after callback(): `except Exception` catches what the
\* callback raised and prints the traceback
AfterCallback(next, raises) == next

\* callback() inside try/except in the loop `loop` of run()
WorkerCallback(w, loop, next) ==
    /\ RunCallback(wcur[w])
    /\ wcur' = [wcur EXCEPT ![w] = NoCallback]
    /\ \E raises \in BOOLEAN :
         /\ wpc' = [wpc EXCEPT ![w] = AfterCallback(next, raises)]
         /\ failBehind' =
              IF raises
              THEN [failBehind EXCEPT ![w] = @ \cup IdsOf(queue[w])]
              ELSE failBehind
         /\ raisedIn' =
              IF raises
              THEN [raisedIn EXCEPT ![w] = @ \cup {loop}]
              ELSE raisedIn
    /\ UNCHANGED <<encVars, hpc, hkind, hcb, escaped, spawned, nChanges,
                   nDecided, dispatched, settledBy, syncGhost, hfresh,
                   windowDispatch, is_running, queue, lifecycleVars, factoryVars>>

\* run(), lines 216-219: the callback of the loop `while self._is_running`
WorkerCall(w) ==
    /\ wpc[w] = "call"
    /\ WorkerCallback(w, "running", "loop")

WorkerDrainDiscard(w) ==
    /\ wpc[w] = "drain"
    /\ wpc' = [wpc EXCEPT ![w] = "exited"]
    /\ UNCHANGED <<encVars, hpc, hkind, hcb, nCw, nCcw, escaped, spawned,
                   historyVars, is_running, queue, wcur, sharedVars, factoryVars>>

\* run(), lines 220-224: queue.pop() of the loop `while True`; IndexError
\* ends the thread
WorkerDrain(w) ==
    /\ wpc[w] = "drain"
    /\ IF queue[w] = <<>>
       THEN /\ wpc' = [wpc EXCEPT ![w] = "exited"]
            /\ UNCHANGED <<queue, wcur>>
       ELSE /\ wcur' = [wcur EXCEPT ![w] = PopValue(queue[w])]
            /\ queue' = [queue EXCEPT ![w] = PopRest(queue[w])]
            /\ wpc' = [wpc EXCEPT ![w] = "drain_call"]
    /\ UNCHANGED <<encVars, hpc, hkind, hcb, nCw, nCcw, escaped, spawned,
                   historyVars, is_running, sharedVars, factoryVars>>

\* run(), lines 226-229: the callback of the loop `while True`
WorkerDrainCall(w) ==
    /\ wpc[w] = "drain_call"
    /\ WorkerCallback(w, "drain", "drain")

\* is_alive() of a CallbackThread
Alive(w) == wpc[w] \in {"loop", "call", "drain", "drain_call"}

\* ------------------------------------------ start() step by step
StartReadClk ==
    /\ epc = "created"
    /\ clk_state' = pins["clk"]
    /\ epc' = "read_dt"
    /\ UNCHANGED <<pins, callbacks, dt_state, last_resting_state, state_lock,
                   on_clockwise_turn, on_counter_clockwise_turn,
                   callback_handling, handlerVars, historyVars, workerVars, sharedVars, factoryVars>>

StartReadDt ==
    /\ epc = "read_dt"
    /\ dt_state' = pins["dt"]
    /\ epc' = "rest"
    /\ UNCHANGED <<pins, callbacks, clk_state, last_resting_state, state_lock,
                   on_clockwise_turn, on_counter_clockwise_turn,
                   callback_handling, handlerVars, historyVars, workerVars, sharedVars, factoryVars>>

StartRestAssignFirst ==
    /\ epc = "rest"
    /\ last_resting_state' = clk_state
    /\ epc' = IF StartRaises(clk_state, dt_state) THEN "failed" ELSE "add_clk"
    /\ UNCHANGED <<pins, callbacks, clk_state, dt_state, state_lock,
                   on_clockwise_turn, on_counter_clockwise_turn,
                   callback_handling, handlerVars, historyVars, workerVars, sharedVars, factoryVars>>

\* line 82: last_resting_state = _current_resting_state(), which may raise
StartRest ==
    /\ epc = "rest"
    /\ IF StartRaises(clk_state, dt_state)
       THEN /\ epc' = "failed"
            /\ UNCHANGED last_resting_state
       ELSE /\ last_resting_state' = CurrentRestingState(clk_state, dt_state)
            /\ epc' = "add_clk"
    /\ UNCHANGED <<pins, callbacks, clk_state, dt_state, state_lock,
                   on_clockwise_turn, on_counter_clockwise_turn,
                   callback_handling, handlerVars, historyVars, workerVars, sharedVars, factoryVars>>

\* gpio.add_event_detect(pin, BOTH, callback)
AddEventDetect(p, next) ==
    /\ callbacks' = [callbacks EXCEPT ![p] = TRUE]
    /\ epc' = next
    /\ UNCHANGED <<pins, clk_state, dt_state, last_resting_state, state_lock,
                   on_clockwise_turn, on_counter_clockwise_turn,
                   callback_handling, handlerVars, historyVars, workerVars, sharedVars, factoryVars>>

StartAddClk == epc = "add_clk" /\ AddEventDetect("clk", "add_dt")

StartAddDt == epc = "add_dt" /\ AddEventDetect("dt", "started")

\* --------------------------------------- edges and edge handlers
IdleThreads == {t \in HThreads : hpc[t] = "idle"}

\* a level of pin p changes; the hardware layer runs the notifier registered
\* for the pin on an interrupt thread
LevelChange(p) ==
    /\ nChanges < MaxEdges
    /\ pins' = Toggle(p)
    /\ nChanges' = nChanges + 1
    /\ settledBy' = IF pins'["clk"] = pins'["dt"]
                    THEN [settledBy EXCEPT ![pins'["clk"]] = p]
                    ELSE settledBy
    /\ hfresh' = [t \in HThreads |-> FALSE]
    /\ windowDispatch' = 0
    /\ IF callbacks[p]
       THEN /\ IdleThreads # {}
            /\ LET t == CHOOSE i \in IdleThreads : TRUE
               IN /\ hpc' = [hpc EXCEPT ![t] = "lock"]
                  /\ hkind' = [hkind EXCEPT ![t] = p]
       ELSE UNCHANGED <<hpc, hkind>>
    /\ UNCHANGED <<callbacks, clk_state, dt_state, last_resting_state,
                   state_lock, on_clockwise_turn, on_counter_clockwise_turn,
                   callback_handling, epc, hcb, nCw, nCcw, escaped, spawned,
                   nDecided, dispatched, executed, syncGhost, workerVars, sharedVars, factoryVars>>

\* with self._state.state_lock
HLock(t) ==
    /\ hpc[t] = "lock"
    /\ state_lock = NoThread
    /\ state_lock' = t
    /\ hpc' = [hpc EXCEPT ![t] = "read_dt"]
    /\ UNCHANGED <<pins, callbacks, clk_state, dt_state, last_resting_state,
                   on_clockwise_turn, on_counter_clockwise_turn,
                   callback_handling, epc, hkind, hcb, nCw, nCcw, escaped,
                   spawned, historyVars, workerVars, sharedVars, factoryVars>>

\* self._state.dt_state = self._get_dt_state()
HReadDt(t) ==
    /\ hpc[t] = "read_dt"
    /\ dt_state' = pins["dt"]
    /\ hpc' = [hpc EXCEPT ![t] = "read_clk"]
    /\ UNCHANGED <<pins, callbacks, clk_state, last_resting_state, state_lock,
                   on_clockwise_turn, on_counter_clockwise_turn,
                   callback_handling, epc, hkind, hcb, nCw, nCcw, escaped,
                   spawned, nChanges, nDecided, dispatched, executed,
                   settledBy, syncGhost, hfresh, windowDispatch, workerVars, sharedVars, factoryVars>>

LockKeptForDispatch(t, moved) == IF moved THEN t ELSE NoThread

\* the holder of state_lock when a pass of thread t leaves the with block,
\* by `return` (no detent) or by its end (detent): the lock is released
LockAfterPass(t, moved) == NoThread

\* self._state.clk_state = self._get_clk_state(), _did_dial_move() and the
\* end of the with block on either path
HReadClk(t) ==
    /\ hpc[t] = "read_clk"
    /\ clk_state' = pins["clk"]
    /\ last_resting_state' =
         LastRestingAfter(pins["clk"], dt_state, last_resting_state)
    /\ state_lock' =
         LockAfterPass(t, DidDialMove(pins["clk"], dt_state, last_resting_state))
    /\ IF DidDialMove(pins["clk"], dt_state, last_resting_state)
       THEN /\ nDecided' = nDecided + 1
            /\ hcb' = [hcb EXCEPT ![t] =
                         [id |-> nDecided + 1,
                          dir |-> HandlerDirection(hkind[t]),
                          cause |-> settledBy[pins["clk"]],
                          armed |-> epc = "started"]]
            /\ hpc' = [hpc EXCEPT ![t] = "dispatch"]
            /\ hfresh' = [hfresh EXCEPT ![t] = TRUE]
       ELSE /\ hpc' = [hpc EXCEPT ![t] = "idle"]
            /\ hfresh' = [hfresh EXCEPT ![t] = FALSE]
            /\ UNCHANGED <<nDecided, hcb>>
    /\ UNCHANGED <<pins, callbacks, dt_state, on_clockwise_turn,
                   on_counter_clockwise_turn, callback_handling, epc, hkind,
                   nCw, nCcw, escaped, spawned, nChanges, dispatched,
                   executed, settledBy, syncGhost, windowDispatch,
                   workerVars, sharedVars, factoryVars>>

\* same_thread_callback_handler: callback() in the handler's thread, with
\* nothing around it to catch what the callback raises
SameThreadCallbackHandler(cb, raises) ==
    /\ RunCallback(cb)
    /\ escaped' = (escaped \/ raises)
    /\ UNCHANGED <<spawned, queue>>

\* spawn_thread_callback_handler: a daemon thread that will run callback
SpawnThreadCallbackHandler(cb) ==
    /\ spawned' = spawned \cup {cb}
    /\ UNCHANGED <<nCw, nCcw, executed, escaped, queue>>

\* queue.appendleft of the worker the factory gave the encoder
QueueCallbackHandler(w, cb) ==
    /\ queue' = [queue EXCEPT ![w] = AppendLeft(queue[w], cb)]
    /\ UNCHANGED <<nCw, nCcw, executed, escaped, spawned>>

\* the worker whose queue.appendleft is the encoder's _callback_handler
EncoderWorker == "w1"

\* lines 121-122 and 130-131: the callback, if not None, goes to
\* _callback_handler after the lock is released
HDispatch(t) ==
    /\ hpc[t] = "dispatch"
    /\ hpc' = [hpc EXCEPT ![t] = "idle"]
    /\ hcb' = [hcb EXCEPT ![t] = NoCallback]
    /\ hfresh' = [hfresh EXCEPT ![t] = FALSE]
    /\ IF ~CallbackSet(hkind[t])
       THEN UNCHANGED <<nCw, nCcw, executed, escaped, spawned, queue,
                        dispatched, windowDispatch>>
       ELSE /\ dispatched' = Append(dispatched, hcb[t])
            /\ windowDispatch' =
                 IF hfresh[t] THEN windowDispatch + 1 ELSE windowDispatch
            /\ CASE callback_handling = SAME_THREAD ->
                      \E raises \in BOOLEAN :
                          SameThreadCallbackHandler(hcb[t], raises)
                 [] callback_handling = SPAWN_THREAD ->
                      SpawnThreadCallbackHandler(hcb[t])
                 [] OTHER -> QueueCallbackHandler(EncoderWorker, hcb[t])
    /\ UNCHANGED <<encVars, hkind, nChanges, nDecided, settledBy, syncGhost,
                   wpc, is_running, wcur, sharedVars, factoryVars>>

\* a thread started by spawn_thread_callback_handler runs its callback; an
\* exception of the callback ends that thread alone
SpawnedRun(cb) ==
    /\ cb \in spawned
    /\ spawned' = spawned \ {cb}
    /\ RunCallback(cb)
    /\ UNCHANGED <<encVars, hpc, hkind, hcb, escaped, nChanges, nDecided,
                   dispatched, settledBy, syncGhost, hfresh, windowDispatch,
                   workerVars, sharedVars, factoryVars>>

\* rotary_encoder(): for the two worker strategies a started CallbackThread
\* exists before the encoder is constructed, the shared one with this
\* encoder as its only holder
InitFactoryShared ==
    /\ global_callback_thread =
         IF callback_handling = GLOBAL_WORKER_THREAD THEN EncoderWorker ELSE NoWorker
    /\ usage_counter = IF callback_handling = GLOBAL_WORKER_THREAD THEN 1 ELSE 0
    /\ usage_counter_lock = NoThread
    /\ cpc = [c \in Clients |-> "out"]
    /\ cq = [c \in Clients |-> NoWorker]
    /\ nAcquired = 0
    /\ nProduced = 0
    /\ stopSnap = [w \in Workers |-> {}]
    /\ joined = [w \in Workers |-> FALSE]
    /\ failBehind = [w \in Workers |-> {}]
    /\ raisedIn = [w \in Workers |-> {}]

InitFactoryWorker ==
    IF callback_handling \in {LOCAL_WORKER_THREAD, GLOBAL_WORKER_THREAD}
    THEN /\ wpc = [w \in Workers |-> IF w = EncoderWorker THEN "loop" ELSE "new"]
         /\ is_running = [w \in Workers |-> w = EncoderWorker]
         /\ queue = [w \in Workers |-> <<>>]
         /\ wcur = [w \in Workers |-> NoCallback]
    ELSE InitNoWorkers

Init ==
    /\ InitEncoder
    /\ InitNoButton
    /\ fpc = "start"
    /\ fexit = "none"
    /\ callback_handling \in CallbackHandling
    /\ InitFactoryWorker
    /\ InitFactoryShared

Next ==
    \/ StartReadClk
    \/ StartReadDt
    \/ StartRest
    \/ StartAddClk
    \/ StartAddDt
    \/ \E p \in Pins : LevelChange(p)
    \/ \E t \in HThreads : HLock(t)
    \/ \E t \in HThreads : HReadDt(t)
    \/ \E t \in HThreads : HReadClk(t)
    \/ \E t \in HThreads : HDispatch(t)
    \/ \E cb \in spawned : SpawnedRun(cb)
    \/ WorkerLoop(EncoderWorker)
    \/ WorkerCall(EncoderWorker)

Spec == Init /\ [][Next]_vars

\* ------------------------------------------------ callback_queue()
encoderAll == <<encVars, handlerVars, historyVars>>

\* lines 244-245: with _usage_counter_lock: _usage_counter += 1
AcquireIncrement(c) ==
    /\ cpc[c] = "out"
    /\ nAcquired < MaxAcquires
    /\ usage_counter_lock = NoThread
    /\ usage_counter' = usage_counter + 1
    /\ nAcquired' = nAcquired + 1
    /\ cpc' = [cpc EXCEPT ![c] = "check"]
    /\ UNCHANGED <<encoderAll, workerVars, global_callback_thread,
                   usage_counter_lock, cq, nProduced, stopSnap, joined,
                   failVars, factoryVars>>

\* line 246: if _global_callback_thread is None, outside the lock
AcquireCheck(c) ==
    /\ cpc[c] = "check"
    /\ cpc' = [cpc EXCEPT ![c] =
                 IF global_callback_thread = NoWorker THEN "create" ELSE "yield"]
    /\ UNCHANGED <<encoderAll, workerVars, global_callback_thread,
                   usage_counter, usage_counter_lock, cq, nAcquired,
                   nProduced, stopSnap, joined, failVars, factoryVars>>

FreshWorkers == {w \in Workers : wpc[w] = "new"}

\* line 247: _global_callback_thread = CallbackThread(), with __init__
AcquireCreate(c) ==
    /\ cpc[c] = "create"
    /\ FreshWorkers # {}
    /\ LET w == CHOOSE f \in FreshWorkers : TRUE
       IN /\ wpc' = [wpc EXCEPT ![w] = "init"]
          /\ is_running' = [is_running EXCEPT ![w] = TRUE]
          /\ global_callback_thread' = w
    /\ cpc' = [cpc EXCEPT ![c] = "start"]
    /\ UNCHANGED <<encoderAll, queue, wcur, usage_counter, usage_counter_lock,
                   cq, nAcquired, nProduced, stopSnap, joined, failVars, factoryVars>>

\* line 248: _global_callback_thread.start() on the thread the global names
\* now; Thread.start() of a started thread raises RuntimeError, which leaves
\* callback_queue() before its try block
AcquireStart(c) ==
    /\ cpc[c] = "start"
    /\ global_callback_thread # NoWorker
    /\ IF wpc[global_callback_thread] = "init"
       THEN /\ wpc' = [wpc EXCEPT ![global_callback_thread] = "loop"]
            /\ cpc' = [cpc EXCEPT ![c] = "yield"]
       ELSE /\ cpc' = [cpc EXCEPT ![c] = "error"]
            /\ UNCHANGED wpc
    /\ UNCHANGED <<encoderAll, is_running, queue, wcur,
                   global_callback_thread, usage_counter, usage_counter_lock,
                   cq, nAcquired, nProduced, stopSnap, joined, failVars, factoryVars>>

\* lines 249-251: yield _global_callback_thread.queue
AcquireYield(c) ==
    /\ cpc[c] = "yield"
    /\ global_callback_thread # NoWorker
    /\ cq' = [cq EXCEPT ![c] = global_callback_thread]
    /\ cpc' = [cpc EXCEPT ![c] = "held"]
    /\ UNCHANGED <<encoderAll, workerVars, global_callback_thread,
                   usage_counter, usage_counter_lock, nAcquired, nProduced,
                   stopSnap, joined, failVars, factoryVars>>

\* the body of the with block: the holder's encoder hands a callback to
\* queue.appendleft of the queue it was given
Produce(c) ==
    /\ cpc[c] = "held"
    /\ nProduced < MaxCallbacks
    /\ nProduced' = nProduced + 1
    /\ queue' = [queue EXCEPT ![cq[c]] =
                   AppendLeft(@, [id |-> nProduced + 1, dir |-> "user",
                                  cause |-> "none", armed |-> FALSE])]
    /\ UNCHANGED <<encoderAll, wpc, is_running, wcur, global_callback_thread,
                   usage_counter, usage_counter_lock, cpc, cq, nAcquired,
                   stopSnap, joined, failVars, factoryVars>>

\* lines 253-255: with _usage_counter_lock: _usage_counter -= 1 and the test
\* for 0; the lock is kept for stop() when the counter is 0
ReleaseDecrement(c) ==
    /\ cpc[c] = "held"
    /\ usage_counter_lock = NoThread
    /\ usage_counter' = usage_counter - 1
    /\ IF usage_counter' = 0
       THEN /\ usage_counter_lock' = c
            /\ cpc' = [cpc EXCEPT ![c] = "stop"]
       ELSE /\ usage_counter_lock' = NoThread
            /\ cpc' = [cpc EXCEPT ![c] = "out"]
    /\ UNCHANGED <<encoderAll, workerVars, global_callback_thread, cq,
                   nAcquired, nProduced, stopSnap, joined, failVars, factoryVars>>

\* CallbackThread.stop(), line 232: self._is_running = False
Stop(w) ==
    /\ is_running' = [is_running EXCEPT ![w] = FALSE]
    /\ stopSnap' = [stopSnap EXCEPT ![w] = IdsOf(queue[w])]

\* CallbackThread.stop(), line 233: self.join() returns when run() has ended
Join(w) ==
    /\ wpc[w] = "exited"
    /\ joined' = [joined EXCEPT ![w] = TRUE]

\* line 256: _global_callback_thread.stop(), up to the join
ReleaseStop(c) ==
    /\ cpc[c] = "stop"
    /\ global_callback_thread # NoWorker
    /\ Stop(global_callback_thread)
    /\ cpc' = [cpc EXCEPT ![c] = "join"]
    /\ UNCHANGED <<encoderAll, wpc, queue, wcur, global_callback_thread,
                   usage_counter, usage_counter_lock, cq, nAcquired,
                   nProduced, joined, failVars, factoryVars>>

\* lines 256-257: the join of stop(), _global_callback_thread = None and the
\* end of the with block of the lock
ReleaseJoin(c) ==
    /\ cpc[c] = "join"
    /\ global_callback_thread # NoWorker
    /\ Join(global_callback_thread)
    /\ global_callback_thread' = NoWorker
    /\ usage_counter_lock' = NoThread
    /\ cpc' = [cpc EXCEPT ![c] = "out"]
    /\ UNCHANGED <<encoderAll, workerVars, usage_counter, cq, nAcquired,
                   nProduced, stopSnap, failVars, factoryVars>>

\* no encoder takes part: its pins stay low
InitQueueHolders ==
    /\ pins = [p \in Pins |-> FALSE]
    /\ on_clockwise_turn = TRUE
    /\ on_counter_clockwise_turn = TRUE
    /\ InitEncoder
    /\ InitNoButton
    /\ InitNoFactory
    /\ callback_handling = GLOBAL_WORKER_THREAD
    /\ InitNoWorkers
    /\ InitShared

NextShared ==
    \/ \E c \in Clients : AcquireIncrement(c)
    \/ \E c \in Clients : AcquireCheck(c)
    \/ \E c \in Clients : AcquireCreate(c)
    \/ \E c \in Clients : AcquireStart(c)
    \/ \E c \in Clients : AcquireYield(c)
    \/ \E c \in Clients : Produce(c)
    \/ \E c \in Clients : ReleaseDecrement(c)
    \/ \E c \in Clients : ReleaseStop(c)
    \/ \E c \in Clients : ReleaseJoin(c)
    \/ \E w \in Workers : WorkerLoop(w)
    \/ \E w \in Workers : WorkerCall(w)
    \/ \E w \in Workers : WorkerDrain(w)
    \/ \E w \in Workers : WorkerDrainCall(w)

SpecShared == InitQueueHolders /\ [][NextShared]_vars

\* a handler pass of the holder's encoder that was running when the with
\* block ended reaches its queue.appendleft during the release
ProduceLate(c) ==
    /\ cpc[c] \in {"stop", "join"}
    /\ cq[c] # NoWorker
    /\ nProduced < MaxCallbacks
    /\ nProduced' = nProduced + 1
    /\ queue' = [queue EXCEPT ![cq[c]] =
                   AppendLeft(@, [id |-> nProduced + 1, dir |-> "user",
                                  cause |-> "none", armed |-> FALSE])]
    /\ UNCHANGED <<encoderAll, wpc, is_running, wcur, global_callback_thread,
                   usage_counter, usage_counter_lock, cpc, cq, nAcquired,
                   stopSnap, joined, failVars, factoryVars>>

\* one thread opens and closes `with callback_queue()` again and again
Holder == "a"

NextHolder ==
    \/ AcquireIncrement(Holder)
    \/ AcquireCheck(Holder)
    \/ AcquireCreate(Holder)
    \/ AcquireStart(Holder)
    \/ AcquireYield(Holder)
    \/ Produce(Holder)
    \/ ProduceLate(Holder)
    \/ ReleaseDecrement(Holder)
    \/ ReleaseStop(Holder)
    \/ ReleaseJoin(Holder)
    \/ \E w \in Workers : WorkerLoop(w)
    \/ \E w \in Workers : WorkerCall(w)
    \/ \E w \in Workers : WorkerDrain(w)
    \/ \E w \in Workers : WorkerDrainCall(w)

\* the scheduler lets every thread that can take a step take it: the
\* worker threads in run(), and the releasing thread in stop() and join()
SpecHolderFair ==
    /\ InitQueueHolders
    /\ [][NextHolder]_vars
    /\ \A w \in Workers :
         /\ WF_vars(WorkerLoop(w))
         /\ WF_vars(WorkerCall(w))
         /\ WF_vars(WorkerDrain(w))
         /\ WF_vars(WorkerDrainCall(w))
    /\ WF_vars(ReleaseStop(Holder))
    /\ WF_vars(ReleaseJoin(Holder))

\* --------------------------- a callback that enters callback_queue()
\* the `with callback_queue()` entered by a user callback, in the worker
\* thread that runs the callback (for instance the callback opens a
\* GLOBAL_WORKER_THREAD encoder and keeps it open)
Opener == "b"

OpenerQueued(w) == \E i \in 1..Len(queue[w]) : queue[w][i].dir = "open"
OpenerPending == \E w \in Workers : OpenerQueued(w) \/ wcur[w].dir = "open"

\* a worker is inside callback() of the callback that enters callback_queue()
OpenerRunning ==
    \E w \in Workers :
        wpc[w] \in {"call", "drain_call"} /\ wcur[w].dir = "open"

\* the holder's encoder hands that callback to queue.appendleft, once
ProduceOpener(c) ==
    /\ cpc[c] = "held"
    /\ cpc[Opener] = "out"
    /\ ~OpenerPending
    /\ nProduced < MaxCallbacks
    /\ nProduced' = nProduced + 1
    /\ queue' = [queue EXCEPT ![cq[c]] =
                   AppendLeft(@, [id |-> nProduced + 1, dir |-> "open",
                                  cause |-> "none", armed |-> FALSE])]
    /\ UNCHANGED <<encoderAll, wpc, is_running, wcur, global_callback_thread,
                   usage_counter, usage_counter_lock, cpc, cq, nAcquired,
                   stopSnap, joined, failVars, factoryVars>>

\* the steps of callback_queue().__enter__ inside the callback
NestedAcquire ==
    /\ OpenerRunning
    /\ \/ AcquireIncrement(Opener)
       \/ AcquireCheck(Opener)
       \/ AcquireCreate(Opener)
       \/ AcquireStart(Opener)
       \/ AcquireYield(Opener)

\* callback() returns when its `with callback_queue()` has been entered
CallbackReturns(w) == wcur[w].dir = "open" => cpc[Opener] = "held"

NestedWorkerCall(w) == CallbackReturns(w) /\ WorkerCall(w)

NestedWorkerDrainCall(w) == CallbackReturns(w) /\ WorkerDrainCall(w)

\* the holder enters callback_queue(); one of the entries of a run is left
\* to the callback
HolderIncrement ==
    /\ nAcquired + 1 < MaxAcquires
    /\ AcquireIncrement(Holder)

NextNested ==
    \/ HolderIncrement
    \/ AcquireCheck(Holder)
    \/ AcquireCreate(Holder)
    \/ AcquireStart(Holder)
    \/ AcquireYield(Holder)
    \/ Produce(Holder)
    \/ ProduceOpener(Holder)
    \/ ReleaseDecrement(Holder)
    \/ ReleaseStop(Holder)
    \/ ReleaseJoin(Holder)
    \/ NestedAcquire
    \/ \E w \in Workers : WorkerLoop(w)
    \/ \E w \in Workers : NestedWorkerCall(w)
    \/ \E w \in Workers : WorkerDrain(w)
    \/ \E w \in Workers : NestedWorkerDrainCall(w)

\* every thread that can take a step takes it: the workers, the callback
\* inside callback_queue(), the releasing thread
SpecNestedFair ==
    /\ InitQueueHolders
    /\ [][NextNested]_vars
    /\ \A w \in Workers :
         /\ WF_vars(WorkerLoop(w))
         /\ WF_vars(NestedWorkerCall(w))
         /\ WF_vars(WorkerDrain(w))
         /\ WF_vars(NestedWorkerDrainCall(w))
    /\ WF_vars(NestedAcquire)
    /\ WF_vars(ReleaseStop(Holder))
    /\ WF_vars(ReleaseJoin(Holder))

\* ------------------------------------------------ rotary_encoder()
\* level changes while one `with rotary_encoder(...)` block runs
MaxFactoryEdges == 2

\* the thread that enters `with rotary_encoder(...)`, and the holder of
\* another GLOBAL_WORKER_THREAD encoder that may be open meanwhile
Caller == "a"
OtherHolder == "b"

buttonVars == <<sw_pin, on_button_down, on_button_up, sw_callback>>
encoderState == <<pins, clk_state, dt_state, last_resting_state, state_lock,
                  on_clockwise_turn, on_counter_clockwise_turn,
                  callback_handling, epc>>

\* line 164: `with callback_queue() as queue`, the steps of its __enter__
FactoryAcquire ==
    /\ fpc = "enter"
    /\ callback_handling = GLOBAL_WORKER_THREAD
    /\ \/ AcquireIncrement(Caller)
       \/ AcquireCheck(Caller)
       \/ AcquireCreate(Caller)
       \/ AcquireStart(Caller)
       \/ AcquireYield(Caller)

\* lines 165-168: RotaryEncoder(_callback_handler=queue.appendleft)
FactoryGlobalEncoder ==
    /\ fpc = "enter"
    /\ callback_handling = GLOBAL_WORKER_THREAD
    /\ cpc[Caller] = "held"
    /\ cq[Caller] = EncoderWorker
    /\ fpc' = "start"
    /\ UNCHANGED <<encVars, handlerVars, historyVars, workerVars, sharedVars,
                   buttonVars, fexit>>

\* lines 175-180: worker_thread = CallbackThread(), worker_thread.start()
\* and RotaryEncoder(_callback_handler=worker_thread.queue.appendleft)
FactoryLocalWorker ==
    /\ fpc = "enter"
    /\ callback_handling = LOCAL_WORKER_THREAD
    /\ wpc[EncoderWorker] = "new"
    /\ wpc' = [wpc EXCEPT ![EncoderWorker] = "loop"]
    /\ is_running' = [is_running EXCEPT ![EncoderWorker] = TRUE]
    /\ fpc' = "start"
    /\ UNCHANGED <<encVars, handlerVars, historyVars, queue, wcur, sharedVars,
                   buttonVars, fexit>>

\* lines 188-195: the encoder of SAME_THREAD and SPAWN_THREAD
FactoryPlainEncoder ==
    /\ fpc = "enter"
    /\ callback_handling \in {SAME_THREAD, SPAWN_THREAD}
    /\ fpc' = "start"
    /\ UNCHANGED <<encVars, handlerVars, historyVars, workerVars, sharedVars,
                   buttonVars, fexit>>

\* lines 169, 181, 196: encoder.start(), step by step
FactoryStart ==
    /\ fpc = "start"
    /\ \/ StartReadClk
       \/ StartReadDt
       \/ StartRest
       \/ StartAddClk
       \/ StartAddDt

FactoryStartFailedSkipsRelease(handling) == "exited"

\* where NotInRestingStateError of encoder.start() takes the generator: in
\* the GLOBAL_WORKER_THREAD branch start() is inside `with callback_queue()`,
\* whose finally runs; in the other branches start() is before the try, so
\* nothing of the factory runs any more
AfterStartFailed(handling) ==
    IF handling = GLOBAL_WORKER_THREAD THEN "release" ELSE "exited"

\* encoder.start() raised NotInRestingStateError
FactoryStartFailed ==
    /\ fpc = "start"
    /\ epc = "failed"
    /\ fexit' = "start_failed"
    /\ fpc' = AfterStartFailed(callback_handling)
    /\ UNCHANGED <<encVars, handlerVars, historyVars, workerVars, sharedVars,
                   buttonVars>>

\* lines 171, 183, 198: yield encoder, the caller's with block begins
FactoryYield ==
    /\ fpc = "start"
    /\ epc = "started"
    /\ fpc' = "body"
    /\ UNCHANGED <<encVars, handlerVars, historyVars, workerVars, sharedVars,
                   buttonVars, fexit>>

\* the caller's with block ends, normally or with an exception; the finally
\* clause of the factory begins
FactoryBodyEnds ==
    /\ fpc = "body"
    /\ \E raised \in BOOLEAN :
         fexit' = IF raised THEN "body_exception" ELSE "normal"
    /\ fpc' = "stop_clk"
    /\ UNCHANGED <<encVars, handlerVars, historyVars, workerVars, sharedVars,
                   buttonVars>>

\* gpio.remove_event_detect(pin): del _callbacks[pin]
RemoveEventDetect(p, next) ==
    /\ callbacks[p]
    /\ callbacks' = [callbacks EXCEPT ![p] = FALSE]
    /\ fpc' = next
    /\ UNCHANGED <<encoderState, handlerVars, historyVars, workerVars,
                   sharedVars, buttonVars, fexit>>

\* what follows encoder.stop() in the finally clause of each branch
AfterEncoderStop(handling) ==
    CASE handling = GLOBAL_WORKER_THREAD -> "release"
      [] handling = LOCAL_WORKER_THREAD -> "worker_stop"
      [] OTHER -> "exited"

\* RotaryEncoder.stop(), line 89
StopRemoveClk == fpc = "stop_clk" /\ RemoveEventDetect("clk", "stop_dt")

\* RotaryEncoder.stop(), lines 90-91
StopRemoveDt ==
    /\ fpc = "stop_dt"
    /\ RemoveEventDetect("dt", AfterEncoderStop(callback_handling))

\* line 186: worker_thread.stop(), up to the join
FactoryWorkerStop ==
    /\ fpc = "worker_stop"
    /\ Stop(EncoderWorker)
    /\ fpc' = "worker_join"
    /\ UNCHANGED <<encVars, handlerVars, historyVars, wpc, queue, wcur,
                   global_callback_thread, usage_counter, usage_counter_lock,
                   cpc, cq, nAcquired, nProduced, joined, failVars,
                   buttonVars, fexit>>

\* line 186: the join of worker_thread.stop() returns
FactoryWorkerJoin ==
    /\ fpc = "worker_join"
    /\ Join(EncoderWorker)
    /\ fpc' = "exited"
    /\ UNCHANGED <<encVars, handlerVars, historyVars, workerVars,
                   global_callback_thread, usage_counter, usage_counter_lock,
                   cpc, cq, nAcquired, nProduced, stopSnap, failVars,
                   buttonVars, fexit>>

\* the end of `with callback_queue()`: the steps of its finally clause
FactoryRelease ==
    /\ fpc = "release"
    /\ \/ ReleaseDecrement(Caller)
       \/ ReleaseStop(Caller)
       \/ ReleaseJoin(Caller)

\* callback_queue() has returned, and with it the factory
FactoryReleased ==
    /\ fpc = "release"
    /\ cpc[Caller] = "out"
    /\ fpc' = "exited"
    /\ UNCHANGED <<encVars, handlerVars, historyVars, workerVars, sharedVars,
                   buttonVars, fexit>>

\* a level change while the factory is in use
FactoryLevelChange(p) ==
    /\ nChanges < MaxFactoryEdges
    /\ LevelChange(p)

\* another GLOBAL_WORKER_THREAD encoder is open: its holder is inside
\* `with callback_queue()` and the shared worker runs
InitOtherHolder ==
    /\ wpc = [w \in Workers |-> IF w = EncoderWorker THEN "loop" ELSE "new"]
    /\ is_running = [w \in Workers |-> w = EncoderWorker]
    /\ queue = [w \in Workers |-> <<>>]
    /\ wcur = [w \in Workers |-> NoCallback]
    /\ global_callback_thread = EncoderWorker
    /\ usage_counter = 1
    /\ usage_counter_lock = NoThread
    /\ cpc = [c \in Clients |-> IF c = OtherHolder THEN "held" ELSE "out"]
    /\ cq = [c \in Clients |-> IF c = OtherHolder THEN EncoderWorker ELSE NoWorker]
    /\ nAcquired = 1
    /\ nProduced = 0
    /\ stopSnap = [w \in Workers |-> {}]
    /\ joined = [w \in Workers |-> FALSE]
    /\ failBehind = [w \in Workers |-> {}]
    /\ raisedIn = [w \in Workers |-> {}]

\* the caller is about to enter `with rotary_encoder(...)`, with or without
\* a button, with both turn callbacks
InitFactory ==
    /\ on_clockwise_turn = TRUE
    /\ on_counter_clockwise_turn = TRUE
    /\ InitEncoder
    /\ sw_pin \in BOOLEAN
    /\ on_button_down = sw_pin
    /\ on_button_up = sw_pin
    /\ sw_callback = FALSE
    /\ fpc = "enter"
    /\ fexit = "none"
    /\ callback_handling \in CallbackHandling
    /\ \/ InitNoWorkers /\ InitShared
       \/ callback_handling = GLOBAL_WORKER_THREAD /\ InitOtherHolder

NextFactory ==
    \/ FactoryAcquire
    \/ FactoryGlobalEncoder
    \/ FactoryLocalWorker
    \/ FactoryPlainEncoder
    \/ FactoryStart
    \/ FactoryStartFailed
    \/ FactoryYield
    \/ FactoryBodyEnds
    \/ StopRemoveClk
    \/ StopRemoveDt
    \/ FactoryWorkerStop
    \/ FactoryWorkerJoin
    \/ FactoryRelease
    \/ FactoryReleased
    \/ \E p \in Pins : FactoryLevelChange(p)
    \/ \E t \in HThreads : HLock(t)
    \/ \E t \in HThreads : HReadDt(t)
    \/ \E t \in HThreads : HReadClk(t)
    \/ \E t \in HThreads : HDispatch(t)
    \/ \E cb \in spawned : SpawnedRun(cb)
    \/ WorkerLoop(EncoderWorker)
    \/ WorkerCall(EncoderWorker)
    \/ WorkerDrain(EncoderWorker)
    \/ WorkerDrainCall(EncoderWorker)

SpecFactory == InitFactory /\ [][NextFactory]_vars

\* ------------------------------------------------------------ claims
Started == epc = "started"
AtRest == pins["clk"] = pins["dt"]
BothCallbacks == on_clockwise_turn /\ on_counter_clockwise_turn
TwoOfEach == <<"clk", "dt", "clk", "dt", "dt", "clk", "dt", "clk">>

\* C1: with every level change followed by its handler, the clockwise calls
\* are the changes of DT, and the counter-clockwise calls the changes of CLK,
\* that brought the pins to rest on a level other than the last resting
\* level; CLK 0,1,1 / DT 0,0,1 gives 1 and 0, and the nine-column sequence
\* of the test gives 2 and 2.
SyncDelivery ==
    /\ (Started /\ on_clockwise_turn) => nCw = nSettle["dt"]
    /\ (Started /\ on_counter_clockwise_turn) => nCcw = nSettle["clk"]
    /\ (Started /\ BothCallbacks /\ trace = <<"clk", "dt">>
          /\ pins["clk"] /\ pins["dt"])
       => (nCw = 1 /\ nCcw = 0)
    /\ (Started /\ BothCallbacks /\ trace = TwoOfEach
          /\ ~pins["clk"] /\ ~pins["dt"])
       => (nCw = 2 /\ nCcw = 2)

SyncDeliveryWitness ==
    /\ Started /\ BothCallbacks /\ trace = TwoOfEach
    /\ ~pins["clk"] /\ ~pins["dt"]
    /\ nCw = 2 /\ nCcw = 2

\* C3: with every level change followed by its handler, a return of the
\* pins to the resting level they left calls no callback, and a flicker of
\* DT before a clockwise detent leaves that detent's single call.
FlickerTolerance ==
    /\ (Started /\ AtRest /\ pins["clk"] = excLevel) => nCw + nCcw = excBase
    /\ (Started /\ BothCallbacks /\ trace = <<"dt", "dt", "clk", "dt">>)
       => (nCw = 1 /\ nCcw = 0)

FlickerToleranceWitness ==
    /\ Started /\ BothCallbacks /\ trace = <<"dt", "dt", "clk", "dt">>
    /\ nCw = 1 /\ nCcw = 0 /\ excBase = 0

\* C2: every callback decided after start() returned and handed to the
\* dispatch strategy is the
\* counter-clockwise one iff a change of CLK physically brought the pins to
\* the resting level the pass confirmed, and the clockwise one iff a change
\* of DT did.
DirectionIsSettlingPin ==
    \A i \in 1..Len(dispatched) :
        dispatched[i].armed =>
            /\ (dispatched[i].dir = "ccw") <=> (dispatched[i].cause = "clk")
            /\ (dispatched[i].dir = "cw") <=> (dispatched[i].cause = "dt")

\* C4: between two level changes, the passes that read CLK and decide after
\* the last change hand at most one callback to the dispatch strategy, and a
\* pass that finds the pins at rest on last_resting_state decides no detent
\* and hands over nothing.
NoDoubleCount ==
    /\ [](windowDispatch <= 1)
    /\ [][\A t \in HThreads :
            (/\ hpc[t] = "read_clk"
             /\ hpc'[t] # "read_clk"
             /\ IsRestingState(pins["clk"], dt_state)
             /\ pins["clk"] = last_resting_state)
            => (/\ hpc'[t] = "idle"
                /\ nDecided' = nDecided
                /\ last_resting_state' = last_resting_state)]_vars

NoDoubleCountWitness ==
    /\ windowDispatch = 1
    /\ AtRest
    /\ \E t \in HThreads :
         /\ hpc[t] = "read_clk"
         /\ dt_state = pins["dt"]
         /\ last_resting_state = pins["clk"]

\* C5: when start() has read different levels of CLK and DT it fails with
\* NotInRestingStateError, and after the failure no notifier is registered
\* for either pin and last_resting_state has its value from construction;
\* with equal levels it does not fail.
StartFailsClean ==
    /\ [](epc = "failed" =>
            /\ \A p \in Pins : ~callbacks[p]
            /\ last_resting_state = DefaultLastRestingState)
    /\ [][(epc = "rest" /\ epc' # "rest") =>
            IF clk_state # dt_state
            THEN /\ epc' = "failed"
                 /\ last_resting_state' = last_resting_state
                 /\ callbacks' = callbacks
            ELSE epc' = "add_clk"]_vars

StartFailsCleanWitness ==
    /\ epc = "failed"
    /\ clk_state
    /\ ~dt_state

\* C6: with a worker strategy, the worker executes the callbacks of the
\* encoder in the order in which their detents were decided under the
\* state lock.
ExecutedInDecidedOrder ==
    callback_handling \in {LOCAL_WORKER_THREAD, GLOBAL_WORKER_THREAD} =>
        \A i, j \in 1..Len(executed) : i < j => executed[i] < executed[j]

\* C10: no exception raised by a user callback leaves an edge handler, under
\* any dispatch strategy.
NoCallbackExceptionEscapes == ~escaped

\* C7: when no thread is inside the entry or the exit of callback_queue(), a
\* worker thread is alive iff the usage counter is greater than zero.
Quiescent == \A c \in Clients : cpc[c] \in {"out", "held"}

WorkerIffCounter ==
    Quiescent => ((\E w \in Workers : Alive(w)) <=> usage_counter > 0)

ExecutedIds == {executed[i] : i \in 1..Len(executed)}

\* C8: when stop() has returned for a worker, every callback that was in the
\* worker's queue when stop() was called has been executed.
GracefulDrain ==
    \A w \in Workers : joined[w] => stopSnap[w] \subseteq ExecutedIds

GracefulDrainWitness ==
    \E w \in Workers : joined[w] /\ Cardinality(stopSnap[w]) >= 2

\* C9: a callback that raises in a worker, in either loop of run(), does not
\* end the worker: the worker ends only after stop(), and then every
\* callback that was queued behind a raising one has been executed.
RaiseKeepsWorker ==
    \A w \in Workers :
        wpc[w] = "exited" =>
            /\ ~is_running[w]
            /\ failBehind[w] \subseteq ExecutedIds

RaiseKeepsWorkerWitness ==
    \E w \in Workers :
        /\ wpc[w] = "exited"
        /\ raisedIn[w] = {"running", "drain"}
        /\ Cardinality(failBehind[w]) >= 2

\* C11: when sw_pin and the button callbacks are not None, an encoder whose
\* start() has returned, and whose stop() has not begun, has an edge notifier
\* registered for the button pin (without which no press or release edge
\* can lead to a dispatch of on_button_down or on_button_up)
ButtonNotifierRegistered ==
    (fpc = "body" /\ sw_pin /\ on_button_down /\ on_button_up) => sw_callback

\* the value of _usage_counter before the caller's acquisition: the other
\* holder, if any, stays inside its with block
CounterBefore == IF cpc[OtherHolder] = "held" THEN 1 ELSE 0

ListedExits == {"normal", "body_exception", "start_failed"}

\* C12: in the GLOBAL_WORKER_THREAD branch of rotary_encoder the usage
\* counter is one above its value before the acquisition from the increment
\* to the release, and on every exit (normal, exception in the caller's
\* body, start() raising NotInRestingStateError) it is back at that value,
\* with the lock free: one decrement for the one increment
CounterRestoredOnExit ==
    callback_handling = GLOBAL_WORKER_THREAD =>
      /\ usage_counter \in {CounterBefore, CounterBefore + 1}
      /\ fpc \in {"start", "body", "stop_clk", "stop_dt"} =>
           usage_counter = CounterBefore + 1
      /\ (fpc = "exited" /\ fexit \in ListedExits) =>
           /\ usage_counter = CounterBefore
           /\ usage_counter_lock = NoThread
           /\ cpc[Caller] = "out"

\* start() failed while another encoder holds the shared worker: the counter
\* is back at 1 and the worker goes on
CounterRestoredOnExitWitness ==
    /\ callback_handling = GLOBAL_WORKER_THREAD
    /\ fpc = "exited"
    /\ fexit = "start_failed"
    /\ CounterBefore = 1
    /\ usage_counter = 1
    /\ Alive(EncoderWorker)

\* C13: a thread that is about to hand its callback to the dispatch
\* strategy, or that has left its pass without a detent, does not hold the
\* state lock; the lock is held only by a thread inside the with block, so a
\* callback run inline finds the lock free of its own thread
NoDispatchUnderLock ==
    /\ \A t \in HThreads :
         hpc[t] \in {"idle", "lock", "dispatch"} => state_lock # t
    /\ state_lock # NoThread =>
         /\ state_lock \in HThreads
         /\ hpc[state_lock] \in {"read_dt", "read_clk"}

\* a thread holds a decided callback not yet handed over while the other
\* thread is inside the with block
NoDispatchUnderLockWitness ==
    \E t \in HThreads :
        /\ hpc[t] = "dispatch"
        /\ CallbackSet(hkind[t])
        /\ state_lock \in HThreads \ {t}

\* C14: at most one CallbackThread started by callback_queue() is alive at
\* any time, and every thread inside its with block holds the queue of the
\* worker the global names
SingleSharedWorker ==
    /\ Cardinality({w \in Workers : Alive(w)}) <= 1
    /\ \A c \in Clients :
         cpc[c] = "held" => cq[c] = global_callback_thread

\* C15: when the worker of the encoder has been asked to stop, both edge
\* notifiers are deregistered, and the queue of a worker that has
\* terminated is empty: nothing was left in it and nothing is appended to
\* it afterwards, so every callback handed to the queue is executed
TeardownLosesNoCallback ==
    /\ (wpc[EncoderWorker] # "new" /\ ~is_running[EncoderWorker]) =>
         \A p \in Pins : ~callbacks[p]
    /\ \A w \in Workers : wpc[w] = "exited" => queue[w] = <<>>

\* run() of worker w does not leave its first loop in this step
StaysInLoop(w) == wpc'[w] \in {"loop", "call"}

\* C16: once stop() has cleared _is_running of a live worker, the worker
\* ends (after the callback in flight and the queue), and the join of the
\* releasing thread returns; a worker that is not stopped does not leave its
\* first loop, and with an empty queue it stays where it is
WorkerShutdownTerminates ==
    /\ \A w \in Workers :
         (Alive(w) /\ ~is_running[w]) ~> (wpc[w] = "exited")
    /\ (cpc[Holder] = "stop") ~> (cpc[Holder] = "out" /\ usage_counter_lock # Holder)
    /\ [][\A w \in Workers :
            (wpc[w] = "loop" /\ is_running[w]) =>
               /\ StaysInLoop(w)
               /\ queue[w] = <<>> => wpc'[w] = "loop"]_vars

\* stop() was called while a callback was in flight and two more were
\* queued; the worker has ended and all three have run
WorkerShutdownTerminatesWitness ==
    \E w \in Workers :
        /\ wpc[w] = "exited"
        /\ joined[w]
        /\ Cardinality(stopSnap[w]) >= 2
        /\ Len(executed) >= 3

\* this step is one of start() reading or writing clk_state, dt_state or
\* last_resting_state (lines 79-82)
StartAccessesState == epc \in {"created", "read_dt", "rest"} /\ epc' # epc

\* this step is one of a handler pass reading or writing them
HandlerAccessesState ==
    \E t \in HThreads : hpc[t] \in {"read_dt", "read_clk"} /\ hpc'[t] # hpc[t]

\* C17: every step of start() and of the edge handlers that reads or writes
\* clk_state, dt_state or last_resting_state is taken while the state lock
\* is held
StateAccessUnderLock ==
    [][(StartAccessesState \/ HandlerAccessesState) =>
          state_lock # NoThread]_vars

StartSucceeded == epc \in {"add_clk", "add_dt", "started"}

\* C18: after a successful start(), whenever the state lock is free and
\* clk_state equals dt_state, last_resting_state is that level; and
\* last_resting_state changes only in a step that leaves clk_state equal to
\* dt_state, to that level
RestingStateTracksRest ==
    /\ []((StartSucceeded /\ state_lock = NoThread /\ clk_state = dt_state)
            => last_resting_state = clk_state)
    /\ [][last_resting_state' # last_resting_state =>
            /\ clk_state' = dt_state'
            /\ last_resting_state' = clk_state']_vars

\* two detents have been decided, the second back on the low level, after a
\* pass that saw the pins differ
RestingStateTracksRestWitness ==
    /\ Started
    /\ state_lock = NoThread
    /\ nDecided >= 2
    /\ clk_state = FALSE
    /\ dt_state = FALSE
    /\ last_resting_state = FALSE
    /\ \A t \in HThreads : hpc[t] = "idle"

\* C19: the release of the last reference completes, and a callback that
\* enters callback_queue() gets past the usage-counter lock, whatever the
\* queued callbacks do with callback_queue()
ReleaseAlwaysCompletes ==
    /\ (cpc[Holder] = "stop") ~> (cpc[Holder] = "out")
    /\ (OpenerRunning /\ cpc[Opener] = "out") ~> (cpc[Opener] # "out")

\* C20: once rotary_encoder(callback_handling=LOCAL_WORKER_THREAD) has
\* exited, by any path, the worker thread started for the encoder is not
\* alive
LocalWorkerStoppedOnExit ==
    (callback_handling = LOCAL_WORKER_THREAD /\ fpc = "exited") =>
        ~Alive(EncoderWorker)

====
